---- MODULE Spec2Model ----
(***************************************************************************)
(* Model of the Express middleware of the password generator API:          *)
(* the request validators and the error handler of src/error.js.           *)
(*                                                                         *)
(* A JavaScript value is a record tagged with its kind.  A number is kept   *)
(* in halves (halves = 2 * value) so that non-integers such as 4.5 are      *)
(* values of the model; a string of a request body is kept by its length,   *)
(* the only thing the validators read of it; a string that the handlers     *)
(* write or copy is kept by its text.                                       *)
(***************************************************************************)
EXTENDS Integers, Sequences, FiniteSets

VARIABLES handler, req, res, nextCalls, err, NODE_ENV

vars == <<handler, req, res, nextCalls, err, NODE_ENV>>

\* Largest reading of the clock that stamps the responses.
MaxClock == 1

(***************************************************************************)
(* JavaScript values                                                        *)
(***************************************************************************)
Undefined == [type |-> "undefined"]
Null == [type |-> "null"]
Bool(b) == [type |-> "boolean", value |-> b]
Num(n) == [type |-> "number", halves |-> 2 * n]
Half(h) == [type |-> "number", halves |-> h]
Str(n) == [type |-> "string", length |-> n]
Text(s) == [type |-> "string", text |-> s]

\* typeof v
typeof(v) == IF v.type = "null" THEN "object" ELSE v.type

\* new Date().toISOString() at clock reading t
IsoString(t) == [type |-> "string", iso |-> t]

\* !v
Falsy(v) ==
    \/ v.type = "undefined"
    \/ v.type = "null"
    \/ v.type = "boolean" /\ v.value = FALSE
    \/ v.type = "number" /\ v.halves = 0
    \/ v.type = "string" /\ "length" \in DOMAIN v /\ v.length = 0

\* v < n and v > n for a number v and an integer literal n
Lt(v, n) == v.halves < 2 * n
Gt(v, n) == v.halves > 2 * n

(***************************************************************************)
(* The response object and next(): what a middleware has done so far.       *)
(***************************************************************************)
Fresh == [sent |-> <<>>, next |-> 0]

\* res.status(code).json(body)
Json(io, code, body) == [io EXCEPT !.sent = Append(@, [status |-> code, body |-> body])]

\* next()
CallNext(io) == [io EXCEPT !.next = @ + 1]

Failure(message) == [success |-> FALSE, error |-> Text(message)]

(***************************************************************************)
(* validatePasswordRequest                                                  *)
(***************************************************************************)
booleanFields ==
    <<"includeUpper", "includeLower", "includeNumbers", "includeSymbols", "excludeSimilar">>

InvalidLength(length) ==
    length # Undefined /\ (typeof(length) # "number" \/ Lt(length, 4) \/ Gt(length, 128))

InvalidBoolean(body, field) ==
    body[field] # Undefined /\ typeof(body[field]) # "boolean"

\* The first field of booleanFields, from index i on, that is not a boolean; 0 when none.
RECURSIVE FirstInvalidBoolean(_, _)
FirstInvalidBoolean(body, i) ==
    IF i > Len(booleanFields) THEN 0
    ELSE IF InvalidBoolean(body, booleanFields[i]) THEN i
    ELSE FirstInvalidBoolean(body, i + 1)

\* Variant: an omitted includeSymbols counts as selected.
hasAtLeastOneType_SymbolsDefaultTrue(body) ==
    \/ body.includeUpper # Bool(FALSE)
    \/ body.includeLower # Bool(FALSE)
    \/ body.includeNumbers # Bool(FALSE)
    \/ body.includeSymbols # Bool(FALSE)

hasAtLeastOneType(body) ==
    \/ body.includeUpper # Bool(FALSE)
    \/ body.includeLower # Bool(FALSE)
    \/ body.includeNumbers # Bool(FALSE)
    \/ body.includeSymbols = Bool(TRUE)

\* `${field} must be a boolean value`
FieldMessage(field) == [type |-> "string", field |-> field, text |-> " must be a boolean value"]

validatePasswordRequest(body, io) ==
    IF InvalidLength(body.length)
    THEN Json(io, Num(400), Failure("Length must be a number between 4 and 128"))
    ELSE IF FirstInvalidBoolean(body, 1) # 0
    THEN Json(io, Num(400), [success |-> FALSE,
                             error |-> FieldMessage(booleanFields[FirstInvalidBoolean(body, 1)])])
    ELSE IF ~hasAtLeastOneType(body)
    THEN Json(io, Num(400), Failure("At least one character type must be selected"))
    ELSE CallNext(io)

(***************************************************************************)
(* validateBatchRequest                                                     *)
(***************************************************************************)
InvalidCount(count) ==
    count # Undefined /\ (typeof(count) # "number" \/ Lt(count, 1) \/ Gt(count, 20))

\* Variant: a valid count is forwarded without the password checks.
validateBatchRequest_SkipsPasswordChecks(body, io) ==
    IF InvalidCount(body.count)
    THEN Json(io, Num(400), Failure("Count must be a number between 1 and 20"))
    ELSE CallNext(io)

\* Variant: the count error is sent without returning.
validateBatchRequest_NoReturn(body, io) ==
    validatePasswordRequest(body,
        IF InvalidCount(body.count)
        THEN Json(io, Num(400), Failure("Count must be a number between 1 and 20"))
        ELSE io)

validateBatchRequest(body, io) ==
    IF InvalidCount(body.count)
    THEN Json(io, Num(400), Failure("Count must be a number between 1 and 20"))
    ELSE validatePasswordRequest(body, io)

(***************************************************************************)
(* validateStrengthRequest                                                  *)
(***************************************************************************)
\* Variant: the maximum is compared with >= instead of >.
validateStrengthRequest_MaximumExclusive(body, io) ==
    IF Falsy(body.password)
    THEN Json(io, Num(400), Failure("Password is required"))
    ELSE IF typeof(body.password) # "string"
    THEN Json(io, Num(400), Failure("Password must be a string"))
    ELSE IF body.password.length = 0
    THEN Json(io, Num(400), Failure("Password cannot be empty"))
    ELSE IF body.password.length >= 1000
    THEN Json(io, Num(400), Failure("Password too long for analysis (max 1000 characters)"))
    ELSE CallNext(io)

validateStrengthRequest(body, io) ==
    IF Falsy(body.password)
    THEN Json(io, Num(400), Failure("Password is required"))
    ELSE IF typeof(body.password) # "string"
    THEN Json(io, Num(400), Failure("Password must be a string"))
    ELSE IF body.password.length = 0
    THEN Json(io, Num(400), Failure("Password cannot be empty"))
    ELSE IF body.password.length > 1000
    THEN Json(io, Num(400), Failure("Password too long for analysis (max 1000 characters)"))
    ELSE CallNext(io)

(***************************************************************************)
(* validatePassphraseRequest                                                *)
(***************************************************************************)
InvalidWordCount(wordCount) ==
    wordCount # Undefined
        /\ (typeof(wordCount) # "number" \/ Lt(wordCount, 2) \/ Gt(wordCount, 10))

InvalidSeparator(separator) ==
    separator # Undefined /\ (typeof(separator) # "string" \/ separator.length > 5)

\* Variant: the separator is checked before the word count.
validatePassphraseRequest_SeparatorFirst(body, io) ==
    IF InvalidSeparator(body.separator)
    THEN Json(io, Num(400), Failure("Separator must be a string with maximum 5 characters"))
    ELSE IF InvalidWordCount(body.wordCount)
    THEN Json(io, Num(400), Failure("Word count must be a number between 2 and 10"))
    ELSE CallNext(io)

validatePassphraseRequest(body, io) ==
    IF InvalidWordCount(body.wordCount)
    THEN Json(io, Num(400), Failure("Word count must be a number between 2 and 10"))
    ELSE IF InvalidSeparator(body.separator)
    THEN Json(io, Num(400), Failure("Separator must be a string with maximum 5 characters"))
    ELSE CallNext(io)

(***************************************************************************)
(* errorHandler                                                             *)
(***************************************************************************)
production(env) == env = Text("production")

\* Variant: the stack is attached whatever the environment.
DefaultBody_StackAlways(e, env, t) ==
    [success |-> FALSE,
     error |-> IF production(env) THEN Text("Internal server error") ELSE e.message,
     timestamp |-> IsoString(t),
     stack |-> e.stack]

DefaultBody(e, env, t) ==
    IF production(env)
    THEN [success |-> FALSE, error |-> Text("Internal server error"), timestamp |-> IsoString(t)]
    ELSE [success |-> FALSE, error |-> e.message, timestamp |-> IsoString(t),
          stack |-> e.stack]

\* Variant: the rate limiting rule is tried before the file size rule.
errorHandler_RateLimitBeforeFileSize(e, env, t, io) ==
    IF e.name = Text("ValidationError")
    THEN Json(io, Num(400), [success |-> FALSE, error |-> Text("Validation Error"),
                             details |-> e.message])
    ELSE IF e.name = Text("SyntaxError") /\ e.status = Num(400) /\ e.hasBody
    THEN Json(io, Num(400), Failure("Invalid JSON in request body"))
    ELSE IF e.status = Num(429)
    THEN Json(io, Num(429), [success |-> FALSE,
                             error |-> Text("Too many requests. Please try again later."),
                             retryAfter |-> e.retryAfter])
    ELSE IF e.code = Text("LIMIT_FILE_SIZE")
    THEN Json(io, Num(413), Failure("File too large"))
    ELSE IF e.type = Text("entity.parse.failed")
    THEN Json(io, Num(400), Failure("Invalid request format"))
    ELSE Json(io, IF Falsy(e.status) THEN Num(500) ELSE e.status, DefaultBody(e, env, t))

errorHandler(e, env, t, io) ==
    IF e.name = Text("ValidationError")
    THEN Json(io, Num(400), [success |-> FALSE, error |-> Text("Validation Error"),
                             details |-> e.message])
    ELSE IF e.name = Text("SyntaxError") /\ e.status = Num(400) /\ e.hasBody
    THEN Json(io, Num(400), Failure("Invalid JSON in request body"))
    ELSE IF e.code = Text("LIMIT_FILE_SIZE")
    THEN Json(io, Num(413), Failure("File too large"))
    ELSE IF e.type = Text("entity.parse.failed")
    THEN Json(io, Num(400), Failure("Invalid request format"))
    ELSE IF e.status = Num(429)
    THEN Json(io, Num(429), [success |-> FALSE,
                             error |-> Text("Too many requests. Please try again later."),
                             retryAfter |-> e.retryAfter])
    ELSE Json(io, IF Falsy(e.status) THEN Num(500) ELSE e.status, DefaultBody(e, env, t))

(***************************************************************************)
(* Requests and errors that reach the middleware.  express.json() parses    *)
(* the body, so a field is absent (undefined) or a JSON value.              *)
(***************************************************************************)
NoBody ==
    [length |-> Undefined, includeUpper |-> Undefined, includeLower |-> Undefined,
     includeNumbers |-> Undefined, includeSymbols |-> Undefined,
     excludeSimilar |-> Undefined, count |-> Undefined, password |-> Undefined,
     wordCount |-> Undefined, separator |-> Undefined]

LengthValues ==
    {Undefined, Null, Str(2), Num(3), Half(7), Num(4), Half(9), Num(128), Half(257), Num(129)}

FlagValues == {Undefined, Bool(TRUE), Bool(FALSE), Num(0)}

CountValues == {Undefined, Bool(TRUE), Num(0), Half(1), Num(1), Half(3), Num(20), Half(41)}

PasswordValues ==
    {Undefined, Null, Bool(FALSE), Bool(TRUE), Num(0), Num(7), Str(0), Str(1), Str(1000),
     Str(1001)}

WordCountValues == {Undefined, Str(1), Num(1), Num(2), Half(5), Num(10), Num(11)}

SeparatorValues == {Undefined, Null, Num(1), Str(0), Str(1), Str(5), Str(6)}

PasswordBodies ==
    {[NoBody EXCEPT !.length = l, !.includeUpper = u, !.includeLower = lo,
                    !.includeNumbers = n, !.includeSymbols = sy, !.excludeSimilar = x] :
        l \in LengthValues, u \in FlagValues, lo \in FlagValues, n \in FlagValues,
        sy \in FlagValues, x \in FlagValues}

BatchBodies == {[b EXCEPT !.count = c] : b \in PasswordBodies, c \in CountValues}

StrengthBodies == {[NoBody EXCEPT !.password = p] : p \in PasswordValues}

PassphraseBodies ==
    {[NoBody EXCEPT !.wordCount = w, !.separator = s] :
        w \in WordCountValues, s \in SeparatorValues}

Errors ==
    [name : {Text("Error"), Text("ValidationError"), Text("SyntaxError")},
     message : {Text("boom"), Text("secret")},
     stack : {Text("at a.js:1"), Text("at b.js:2")},
     status : {Undefined, Num(0), Num(400), Num(429), Num(503)},
     code : {Undefined, Text("LIMIT_FILE_SIZE")},
     type : {Undefined, Text("entity.parse.failed")},
     hasBody : BOOLEAN,
     retryAfter : {Undefined, Num(60)}]

NoError ==
    [name |-> Undefined, message |-> Undefined, stack |-> Undefined, status |-> Undefined,
     code |-> Undefined, type |-> Undefined, hasBody |-> FALSE, retryAfter |-> Undefined]

Environments == {Undefined, Text("development"), Text("production")}

(***************************************************************************)
(* The state machine: the server is idle, a middleware handles a request    *)
(* or an error, and the server turns to the next request.                   *)
(***************************************************************************)
Init ==
    /\ handler = "idle"
    /\ req = NoBody
    /\ res = <<>>
    /\ nextCalls = 0
    /\ err = NoError
    /\ NODE_ENV \in Environments

Ran(name, body, e, io) ==
    /\ handler' = name
    /\ req' = body
    /\ err' = e
    /\ res' = io.sent
    /\ nextCalls' = io.next
    /\ UNCHANGED NODE_ENV

ValidatePasswordRequest ==
    /\ handler = "idle"
    /\ \E body \in PasswordBodies :
        Ran("validatePasswordRequest", body, NoError, validatePasswordRequest(body, Fresh))

ValidateBatchRequest ==
    /\ handler = "idle"
    /\ \E body \in BatchBodies :
        Ran("validateBatchRequest", body, NoError, validateBatchRequest(body, Fresh))

ValidateStrengthRequest ==
    /\ handler = "idle"
    /\ \E body \in StrengthBodies :
        Ran("validateStrengthRequest", body, NoError, validateStrengthRequest(body, Fresh))

ValidatePassphraseRequest ==
    /\ handler = "idle"
    /\ \E body \in PassphraseBodies :
        Ran("validatePassphraseRequest", body, NoError,
            validatePassphraseRequest(body, Fresh))

ErrorHandler ==
    /\ handler = "idle"
    /\ \E e \in Errors, t \in 0..MaxClock :
        Ran("errorHandler", NoBody, e, errorHandler(e, NODE_ENV, t, Fresh))

NextRequest ==
    /\ handler # "idle"
    /\ handler' = "idle"
    /\ req' = NoBody
    /\ err' = NoError
    /\ res' = <<>>
    /\ nextCalls' = 0
    /\ UNCHANGED NODE_ENV

Next ==
    \/ ValidatePasswordRequest
    \/ ValidateBatchRequest
    \/ ValidateStrengthRequest
    \/ ValidatePassphraseRequest
    \/ ErrorHandler
    \/ NextRequest

Spec == Init /\ [][Next]_vars

(***************************************************************************)
(* Vocabulary of the properties                                             *)
(***************************************************************************)
NumberBetween(v, lo, hi) == v.type = "number" /\ 2 * lo <= v.halves /\ v.halves <= 2 * hi

IntegerBetween(v, lo, hi) == NumberBetween(v, lo, hi) /\ v.halves % 2 = 0

AbsentOrBoolean(v) == v = Undefined \/ v.type = "boolean"

\* The middleware answered with exactly this 400 response and nothing else.
Answered400(message) == res = <<[status |-> Num(400), body |-> Failure(message)]>>

\* The middleware answered once, with status 400 and success = false.
AnsweredOnce400 ==
    /\ Len(res) = 1
    /\ res[1].status = Num(400)
    /\ res[1].body.success = FALSE

Forwarded == nextCalls > 0

\* An omitted includeUpper/includeLower/includeNumbers counts as true, an
\* omitted includeSymbols as false.
EffectiveCategory(body) ==
    \/ body.includeUpper \in {Undefined, Bool(TRUE)}
    \/ body.includeLower \in {Undefined, Bool(TRUE)}
    \/ body.includeNumbers \in {Undefined, Bool(TRUE)}
    \/ body.includeSymbols = Bool(TRUE)

NoCategory(body) ==
    /\ body.includeUpper = Bool(FALSE)
    /\ body.includeLower = Bool(FALSE)
    /\ body.includeNumbers = Bool(FALSE)
    /\ body.includeSymbols \in {Undefined, Bool(FALSE)}

LengthAccepted(body) == body.length = Undefined \/ NumberBetween(body.length, 4, 128)

FlagsAccepted(body) == \A i \in 1..Len(booleanFields) : AbsentOrBoolean(body[booleanFields[i]])

CountAccepted(body) == body.count = Undefined \/ NumberBetween(body.count, 1, 20)

WordCountAccepted(body) == body.wordCount = Undefined \/ NumberBetween(body.wordCount, 2, 10)

SeparatorAccepted(body) ==
    body.separator = Undefined \/ (body.separator.type = "string" /\ body.separator.length <= 5)

(***************************************************************************)
(* C1: validatePasswordRequest calls next() only if length is absent or an  *)
(* integer with 4 <= length <= 128; any other supplied length is answered   *)
(* 400 'Length must be a number between 4 and 128' without next().          *)
(***************************************************************************)
C1_LengthIsAbsentOrIntegerInRange ==
    handler = "validatePasswordRequest" =>
        /\ Forwarded => (req.length = Undefined \/ IntegerBetween(req.length, 4, 128))
        /\ ~(req.length = Undefined \/ IntegerBetween(req.length, 4, 128)) =>
              (Answered400("Length must be a number between 4 and 128") /\ ~Forwarded)

(***************************************************************************)
(* C2 as stated: every forwarded request has an effectively selected        *)
(* category, and a request with no category is answered 400 'At least one   *)
(* character type must be selected' and never forwarded.                    *)
(***************************************************************************)
C2_NoCategoryAlwaysGetsCategoryMessage ==
    handler = "validatePasswordRequest" =>
        /\ Forwarded => EffectiveCategory(req)
        /\ NoCategory(req) =>
              (Answered400("At least one character type must be selected") /\ ~Forwarded)

(***************************************************************************)
(* C2 amended: every forwarded request has an effectively selected          *)
(* category; a request with no category is always answered 400 and never    *)
(* forwarded, and the answer is 'At least one character type must be        *)
(* selected' when its length and excludeSimilar pass their own checks,      *)
(* which run first.                                                         *)
(***************************************************************************)
C2_NoCategoryNeverForwarded ==
    handler = "validatePasswordRequest" =>
        /\ Forwarded => EffectiveCategory(req)
        /\ NoCategory(req) =>
              /\ AnsweredOnce400
              /\ ~Forwarded
              /\ (LengthAccepted(req) /\ AbsentOrBoolean(req.excludeSimilar)) =>
                    Answered400("At least one character type must be selected")

C2_Witness ==
    /\ handler = "validatePasswordRequest"
    /\ NoCategory(req)
    /\ req.includeSymbols = Undefined
    /\ req.length = Num(4)
    /\ Answered400("At least one character type must be selected")

(***************************************************************************)
(* C3: validateStrengthRequest calls next() if and only if password is a    *)
(* string of length 1..1000; every other password gets a 400 response and   *)
(* next() is not called.                                                    *)
(***************************************************************************)
C3_StrengthForwardsExactlyValidPasswords ==
    handler = "validateStrengthRequest" =>
        LET valid == /\ req.password.type = "string"
                     /\ 1 <= req.password.length
                     /\ req.password.length <= 1000
        IN /\ Forwarded <=> valid
           /\ ~valid => (AnsweredOnce400 /\ nextCalls = 0)

C3_Witness ==
    /\ handler = "validateStrengthRequest"
    /\ req.password = Str(1000)
    /\ nextCalls = 1
    /\ res = <<>>

(***************************************************************************)
(* C4: validateBatchRequest forwards only if count is absent or a number    *)
(* between 1 and 20 and validatePasswordRequest would forward the request;  *)
(* with an invalid count the count error is the only answer and the         *)
(* password checks are not run.                                             *)
(***************************************************************************)
C4_BatchForwardsOnlyValidCountAndPassword ==
    handler = "validateBatchRequest" =>
        /\ Forwarded =>
              /\ CountAccepted(req)
              /\ LengthAccepted(req) /\ FlagsAccepted(req) /\ EffectiveCategory(req)
              /\ validatePasswordRequest(req, Fresh).next > 0
        /\ ~CountAccepted(req) =>
              (Answered400("Count must be a number between 1 and 20") /\ ~Forwarded)

C4_Witness ==
    /\ handler = "validateBatchRequest"
    /\ req.count = Half(41)
    /\ req.length = Num(3)
    /\ NoCategory(req)
    /\ Answered400("Count must be a number between 1 and 20")

(***************************************************************************)
(* C5: validatePassphraseRequest forwards only if wordCount is absent or a  *)
(* number between 2 and 10 and separator is absent or a string of at most   *)
(* 5 characters; otherwise it answers 400 without next(), the wordCount     *)
(* error taking precedence when both are invalid.                           *)
(***************************************************************************)
C5_PassphraseGate ==
    handler = "validatePassphraseRequest" =>
        /\ Forwarded => (WordCountAccepted(req) /\ SeparatorAccepted(req))
        /\ ~(WordCountAccepted(req) /\ SeparatorAccepted(req)) =>
              (AnsweredOnce400 /\ ~Forwarded)
        /\ ~WordCountAccepted(req) =>
              Answered400("Word count must be a number between 2 and 10")

C5_Witness ==
    /\ handler = "validatePassphraseRequest"
    /\ req.wordCount = Num(11)
    /\ req.separator = Str(6)
    /\ Answered400("Word count must be a number between 2 and 10")

(***************************************************************************)
(* C7 vocabulary: the rule table of errorHandler, first match wins.         *)
(***************************************************************************)
FirstRule(e) ==
    IF e.name = Text("ValidationError") THEN 1
    ELSE IF e.name = Text("SyntaxError") /\ e.status = Num(400) /\ e.hasBody THEN 2
    ELSE IF e.code = Text("LIMIT_FILE_SIZE") THEN 3
    ELSE IF e.type = Text("entity.parse.failed") THEN 4
    ELSE IF e.status = Num(429) THEN 5
    ELSE 6

RuleStatus == <<Num(400), Num(400), Num(413), Num(400), Num(429)>>

RuleMessage ==
    <<"Validation Error", "Invalid JSON in request body", "File too large",
      "Invalid request format", "Too many requests. Please try again later.">>

FollowsRuleTable(defaultStatus) ==
    /\ Len(res) = 1
    /\ res[1].body.success = FALSE
    /\ LET rule == FirstRule(err)
       IN IF rule = 6
          THEN res[1].status = defaultStatus
          ELSE /\ res[1].status = RuleStatus[rule]
               /\ res[1].body.error = Text(RuleMessage[rule])
               /\ rule = 5 => res[1].body.retryAfter = err.retryAfter

(***************************************************************************)
(* C7 as stated: errorHandler answers every error with exactly one JSON     *)
(* response with success = false, its status chosen by the first matching   *)
(* rule; when no rule matches the status is err.status, or 500 when         *)
(* err.status is absent.                                                    *)
(***************************************************************************)
C7_DefaultStatusIsErrStatusUnlessAbsent ==
    handler = "errorHandler" =>
        FollowsRuleTable(IF err.status = Undefined THEN Num(500) ELSE err.status)

(***************************************************************************)
(* C7 amended: as stated, except that when no rule matches the status is    *)
(* err.status when that is truthy and 500 otherwise, so an err.status of 0  *)
(* gives 500 like an absent one.                                            *)
(***************************************************************************)
C7_DefaultStatusIsErrStatusUnlessFalsy ==
    handler = "errorHandler" =>
        FollowsRuleTable(IF Falsy(err.status) THEN Num(500) ELSE err.status)

C7_Witness ==
    /\ handler = "errorHandler"
    /\ err.name = Text("SyntaxError")
    /\ err.status = Num(429)
    /\ err.code = Text("LIMIT_FILE_SIZE")
    /\ err.type = Text("entity.parse.failed")
    /\ Len(res) = 1
    /\ res[1].status = Num(413)

(***************************************************************************)
(* C8: validateStrengthRequest reports each kind of invalid password with   *)
(* its own message: absent gets 'Password is required', a non-string gets   *)
(* 'Password must be a string', an empty string gets 'Password cannot be    *)
(* empty'.                                                                  *)
(***************************************************************************)
C8_EachInvalidPasswordHasItsOwnMessage ==
    handler = "validateStrengthRequest" =>
        /\ req.password = Undefined => Answered400("Password is required")
        /\ (req.password # Undefined /\ req.password.type # "string") =>
              Answered400("Password must be a string")
        /\ req.password = Str(0) => Answered400("Password cannot be empty")

(***************************************************************************)
(* C9: each of the four validators, on every request body, either sends a   *)
(* single 400 response with success = false or calls next() once, never     *)
(* both and never neither.                                                  *)
(***************************************************************************)
Validators ==
    {"validatePasswordRequest", "validateBatchRequest", "validateStrengthRequest",
     "validatePassphraseRequest"}

C9_ValidatorAnswersOrForwardsExactlyOnce ==
    handler \in Validators =>
        \/ AnsweredOnce400 /\ nextCalls = 0
        \/ res = <<>> /\ nextCalls = 1

C9_Witness ==
    /\ handler = "validateBatchRequest"
    /\ req.count = Num(20)
    /\ req.length = Num(129)
    /\ Answered400("Length must be a number between 4 and 128")
    /\ nextCalls = 0

(***************************************************************************)
(* C10 vocabulary: the answers errorHandler gives to the error of the       *)
(* current state with another message or another stack.                     *)
(***************************************************************************)
WithoutTimestamp(response) ==
    [status |-> response.status,
     body |-> [f \in DOMAIN response.body \ {"timestamp"} |-> response.body[f]]]

Answers(e) == errorHandler(e, NODE_ENV, 0, Fresh).sent

SameAnswer(e) ==
    /\ Len(Answers(e)) = Len(res)
    /\ \A i \in 1..Len(res) : WithoutTimestamp(Answers(e)[i]) = WithoutTimestamp(res[i])

Messages == {e.message : e \in Errors}

Stacks == {e.stack : e \in Errors}

(***************************************************************************)
(* C10 as stated: in production the response of errorHandler does not       *)
(* depend on err.message or err.stack, for every error shape.               *)
(***************************************************************************)
C10_ProductionAnswerIgnoresMessageAndStack ==
    (handler = "errorHandler" /\ NODE_ENV = Text("production")) =>
        \A m \in Messages, s \in Stacks :
            SameAnswer([err EXCEPT !.message = m, !.stack = s])

(***************************************************************************)
(* C10 amended: in production the response of errorHandler never depends    *)
(* on err.stack, and it depends on err.message only for an error named      *)
(* 'ValidationError', whose message is returned in the details field.       *)
(***************************************************************************)
C10_ProductionAnswerIgnoresStackAndNonValidationMessage ==
    (handler = "errorHandler" /\ NODE_ENV = Text("production")) =>
        /\ \A s \in Stacks : SameAnswer([err EXCEPT !.stack = s])
        /\ err.name # Text("ValidationError") =>
              \A m \in Messages, s \in Stacks :
                  SameAnswer([err EXCEPT !.message = m, !.stack = s])
        /\ err.name = Text("ValidationError") =>
              (Len(res) = 1 /\ res[1].body.details = err.message)

C10_Witness ==
    /\ handler = "errorHandler"
    /\ NODE_ENV = Text("production")
    /\ err.name = Text("Error")
    /\ err.message = Text("secret")
    /\ err.status = Num(503)
    /\ Len(res) = 1
    /\ res[1].status = Num(503)
    /\ res[1].body.error = Text("Internal server error")

====
